---- MODULE Spec2Model ----
(***************************************************************************)
(* Model of the payout service in src/index.js: the POST /payout handler   *)
(* (validation, balance reservation in a Firestore transaction, the three  *)
(* Paystack calls, the partial name match, the compensating increment and  *)
(* the withdrawal record).  Every request is one asynchronous handler; a   *)
(* step of the model is the code between two awaits of one handler, so the *)
(* interleavings of the model are the interleavings of the handlers.       *)
(***************************************************************************)
EXTENDS Integers, Sequences, FiniteSets, TLC

(***************************************************************************)
(* Bounds of the model.                                                    *)
(***************************************************************************)
MaxBalance == 2        \* initial balances are 0..MaxBalance, and 100
MaxAmount == 2         \* numeric amounts are -1..MaxAmount, 60 and 150
MaxCounter == 2        \* initial order counters are 0..MaxCounter
MaxLen == 3             \* the enumerated names have at most MaxLen characters

\* The concurrent handlers, the vendors that own a users document, and a
\* uid that a token can carry although no users document has it.
Requests == {"r1", "r2"}
Vendors == {"v1"}
NoUser == "nouser"
Uids == Vendors \cup {NoUser}

(***************************************************************************)
(* JavaScript values of a request body: undefined, numbers and strings.    *)
(* A string is a sequence of one-character strings.                        *)
(***************************************************************************)
\* Number(x) of a value that is not numeric; every comparison with it is
\* false and every sum with it is NaN.
NaN == -1000000

Undefined == [type |-> "undefined", num |-> 0, str |-> <<>>]
Num(n) == [type |-> "number", num |-> n, str |-> <<>>]
Str(s) == [type |-> "string", num |-> 0, str |-> s]

\* !v of JavaScript
Falsy(v) ==
    \/ v.type = "undefined"
    \/ v.type = "number" /\ (v.num = 0 \/ v.num = NaN)
    \/ v.type = "string" /\ v.str = <<>>

Digits == <<"0", "1", "2", "3", "4", "5", "6", "7", "8", "9">>
IsDigit(c) == \E i \in 1..10 : Digits[i] = c
DigitValue(c) == (CHOOSE i \in 1..10 : Digits[i] = c) - 1

RECURSIVE ParseDigits(_)
ParseDigits(s) ==
    IF s = <<>> THEN 0
    ELSE ParseDigits(SubSeq(s, 1, Len(s) - 1)) * 10 + DigitValue(s[Len(s)])

AllDigits(s) == s # <<>> /\ \A i \in 1..Len(s) : IsDigit(s[i])

RECURSIVE Trim(_)
Trim(s) ==
    IF s = <<>> THEN s
    ELSE IF s[1] = " " THEN Trim(Tail(s))
    ELSE IF s[Len(s)] = " " THEN Trim(SubSeq(s, 1, Len(s) - 1))
    ELSE s

\* Number(s) of a string, for strings of digits, signs, blanks and letters:
\* blank is 0, an optionally signed run of digits is its value, all else NaN.
StringToNumber(s) ==
    LET t == Trim(s) IN
    IF t = <<>> THEN 0
    ELSE IF AllDigits(t) THEN ParseDigits(t)
    ELSE IF t[1] = "-" /\ AllDigits(Tail(t)) THEN 0 - ParseDigits(Tail(t))
    ELSE IF t[1] = "+" /\ AllDigits(Tail(t)) THEN ParseDigits(Tail(t))
    ELSE NaN

\* Number(v)
ToNumber(v) ==
    CASE v.type = "number" -> v.num
      [] v.type = "string" -> StringToNumber(v.str)
      [] OTHER -> NaN

\* a < b, a - b and a + b of JavaScript numbers
NumLt(a, b) == a # NaN /\ b # NaN /\ a < b
NumSub(a, b) == IF a = NaN \/ b = NaN THEN NaN ELSE a - b
NumAdd(a, b) == IF a = NaN \/ b = NaN THEN NaN ELSE a + b

(***************************************************************************)
(* The partial name match of the payout handler.                          *)
(***************************************************************************)
Upper ==
    <<"A", "B", "C", "D", "E", "F", "G", "H", "I", "J", "K", "L", "M",
      "N", "O", "P", "Q", "R", "S", "T", "U", "V", "W", "X", "Y", "Z">>
Lower ==
    <<"a", "b", "c", "d", "e", "f", "g", "h", "i", "j", "k", "l", "m",
      "n", "o", "p", "q", "r", "s", "t", "u", "v", "w", "x", "y", "z">>

LowerChar(c) ==
    IF \E i \in 1..Len(Upper) : Upper[i] = c
    THEN Lower[CHOOSE i \in 1..Len(Upper) : Upper[i] = c]
    ELSE c

\* s.toLowerCase()
ToLowerCase(s) == [i \in 1..Len(s) |-> LowerChar(s[i])]

\* s.split(" "): the pieces between single blanks, empty pieces included
RECURSIVE Split(_)
Split(s) ==
    IF \A i \in 1..Len(s) : s[i] # " " THEN <<s>>
    ELSE LET k == CHOOSE i \in 1..Len(s) :
                     s[i] = " " /\ \A j \in 1..(i - 1) : s[j] # " "
         IN <<SubSeq(s, 1, k - 1)>> \o Split(SubSeq(s, k + 1, Len(s)))

\* words.filter(Boolean)
FilterBoolean(words) == SelectSeq(words, LAMBDA w : w # <<>>)

\* hay.includes(word)
Includes(hay, word) ==
    \E i \in 0..(Len(hay) - Len(word)) :
        \A j \in 1..Len(word) : hay[i + j] = word[j]

\* the mismatch flag computed by the loop over userWords
Mismatch(vendorName, resolvedAccountName) ==
    LET resolvedLower == ToLowerCase(resolvedAccountName)
        userWords == FilterBoolean(Split(ToLowerCase(vendorName)))
    IN \E i \in 1..Len(userWords) : ~Includes(resolvedLower, userWords[i])

(***************************************************************************)
(* Inputs and outcomes of the environment.                                 *)
(***************************************************************************)
\* initial balances of a vendor; 100 is the balance of the worked examples
InitBalances == (0..MaxBalance) \cup {100}

\* the amount of a request body; 60 and 150 are the amounts of the worked
\* examples, "x" is a string that is no number, "1" one that is
AmountNumbers == ((0 - 1)..MaxAmount) \cup {60, 150}
Amounts ==
    {Undefined} \cup {Num(n) : n \in AmountNumbers}
                \cup {Str(<<"x">>), Str(<<"1">>)}

\* account_number and bank_code: missing or an opaque string
Opaque == {Undefined, Str(<<"0", "1">>)}

\* vendorName: missing, a string of two words, or a JSON number
VendorNames == {Undefined, Str(<<"A", " ", "b">>), Num(7)}

\* data.account_name of the resolve response: missing, empty, a name that
\* holds both words of the vendor name, a name that holds one of them
ResolvedNames ==
    {Undefined, Str(<<>>), Str(<<"B", "C", " ", "A">>), Str(<<"a", "c">>)}

\* data.recipient_code of the recipient response
RecipientCodes == {Undefined, Str(<<"R">>)}

\* the body of a transfer response that axios resolves (a 2xx answer): its
\* status flag and its data (the provider's transfer record); the handler
\* reads the data only
TransferResponses ==
    { [status |-> TRUE, data |-> Str(<<"T">>)],
      [status |-> FALSE, data |-> Undefined] }

\* A rejected axios call: the provider answered with an error message, or
\* there was no answer at all (error.response is undefined).
GatewayErrors ==
    { [response |-> TRUE, message |-> "provider message"],
      [response |-> FALSE, message |-> "network error"] }

\* The message of a rejected Firestore call.
StoreError == "store error"

Bodies ==
    [amount : Amounts, account_number : Opaque, bank_code : Opaque,
     vendorName : VendorNames]
NoBody ==
    [amount |-> Undefined, account_number |-> Undefined,
     bank_code |-> Undefined, vendorName |-> Undefined]

\* res.status(status).json({success, error | message})
Response(status, success, text) ==
    [status |-> status, success |-> success, text |-> text]
NoResponse == Response(0, FALSE, "")

\* the catch block a handler is in while it awaits the refund of the
\* reserved funds
NoFailure == [step |-> "none", text |-> ""]
Failure(step, text) == [step |-> step, text |-> text]

VARIABLES
    paystackKey,    \* process.env.PAYSTACK_SECRET_KEY is set
    initial,        \* the balance of each vendor before any request
    balance,        \* users/<vendor>.balance
    withdrawals,    \* the withdrawals documents added by each handler
    pc,             \* the await each handler is at
    uid,            \* req.user.uid
    body,           \* req.body
    reserved,       \* the reserve transaction of the handler committed
    calls,          \* the Paystack calls the handler made, in order
    failure,        \* the catch block the handler is in
    compensations,  \* the outcomes of the handler's refund updates
    resolvedAccountName,  \* resolvedAccountName of the handler
    recipientCode,  \* recipientCode of the handler
    transferData,   \* transferData of the handler
    response        \* the response sent

(***************************************************************************)
(* The POST /refund handler: the orders and the order counters of the      *)
(* users documents it updates.                                             *)
(***************************************************************************)
\* the concurrent refund handlers
Refunds == {"f1", "f2"}

\* the users documents that orders refer to
OrderUsers == {"v1", "v2"}

\* The orders collection: two orders of one vendor under reference refA,
\* one order of each vendor under refB; refC matches no order.
Orders == {"o1", "o2", "o3", "o4"}
OrderReference(o) == IF o \in {"o1", "o2"} THEN "refA" ELSE "refB"
OrderUseruid(o) == IF o = "o4" THEN "v2" ELSE "v1"
References == {"refA", "refB", "refC"}
NoReference == "undefined"

\* the Authorization header: absent, a token that does not verify, the
\* token of another account, the operator's token
Tokens == {"none", "invalid", "other", "operator"}

\* An order document: its status and whether refundtime is set.
PaidOrder == [status |-> "paid", refundtime |-> FALSE]
RefundedOrder == [status |-> "refunded", refundtime |-> TRUE]

\* The answer of the Paystack refund call: a rejected axios call (with or
\* without an answer of the provider), or the body of a 2xx answer with its
\* status flag and message.
NoAnswer == [kind |-> "none", status |-> FALSE, message |-> ""]
RefundAnswers ==
    { [kind |-> "error", status |-> FALSE, message |-> "provider message"],
      [kind |-> "error", status |-> FALSE, message |-> ""],
      [kind |-> "body", status |-> FALSE, message |-> "provider message"],
      [kind |-> "body", status |-> FALSE, message |-> ""],
      [kind |-> "body", status |-> TRUE, message |-> ""] }

VARIABLES
    initialCounters,  \* the counters of each users document before any refund
    counters,       \* users/<vendor>.totalorder and .ordernumber
    orders,         \* the orders documents
    rpc,            \* the await each refund handler is at
    token,          \* the Authorization header of the refund request
    reference,      \* req.body.reference
    refundRes,      \* the answer of the Paystack refund call
    ordersSnap,     \* ordersSnap.docs of the handler
    usersSnap,      \* usersSnap.docs of the handler, with the data read
    batched,        \* the transaction of the handler committed
    rresponse       \* the response sent by the refund handler

refundVars ==
    <<initialCounters, counters, orders, rpc, token, reference, refundRes,
      ordersSnap, usersSnap, batched, rresponse>>

(***************************************************************************)
(* The name match run on its own, on names drawn from an alphabet.         *)
(***************************************************************************)
VARIABLES
    claimedName,    \* vendorName
    resolvedName,   \* resolvedAccountName
    verdict         \* the outcome of the check: "none" before it ran

verifyVars == <<claimedName, resolvedName, verdict>>

payoutVars ==
    <<paystackKey, initial, balance, withdrawals, pc, uid, body, reserved,
      calls, failure, compensations, resolvedAccountName, recipientCode,
      transferData, response>>

vars == <<payoutVars, refundVars, verifyVars>>

\* no refund request has arrived
RefundInit ==
    /\ initialCounters \in
           [OrderUsers -> [totalorder : 0..MaxCounter,
                           ordernumber : 0..MaxCounter]]
    /\ counters = initialCounters
    /\ orders = [o \in Orders |-> PaidOrder]
    /\ rpc = [f \in Refunds |-> "idle"]
    /\ token = [f \in Refunds |-> "none"]
    /\ reference = [f \in Refunds |-> NoReference]
    /\ refundRes = [f \in Refunds |-> NoAnswer]
    /\ ordersSnap = [f \in Refunds |-> {}]
    /\ usersSnap = [f \in Refunds |-> {}]
    /\ batched = [f \in Refunds |-> FALSE]
    /\ rresponse = [f \in Refunds |-> NoResponse]

\* the refund handler is not part of the run
RefundQuiet ==
    /\ RefundInit
    /\ initialCounters =
           [v \in OrderUsers |-> [totalorder |-> 0, ordernumber |-> 0]]

\* the name match is not run on its own
VerifyQuiet ==
    /\ claimedName = <<>>
    /\ resolvedName = <<>>
    /\ verdict = "none"

\* no payout request has arrived
PayoutIdle ==
    /\ balance = initial
    /\ withdrawals = [r \in Requests |-> <<>>]
    /\ pc = [r \in Requests |-> "idle"]
    /\ uid = [r \in Requests |-> NoUser]
    /\ body = [r \in Requests |-> NoBody]
    /\ reserved = [r \in Requests |-> FALSE]
    /\ calls = [r \in Requests |-> <<>>]
    /\ failure = [r \in Requests |-> NoFailure]
    /\ compensations = [r \in Requests |-> <<>>]
    /\ resolvedAccountName = [r \in Requests |-> Undefined]
    /\ recipientCode = [r \in Requests |-> Undefined]
    /\ transferData = [r \in Requests |-> Undefined]
    /\ response = [r \in Requests |-> NoResponse]

\* the payout handler is not part of the run
PayoutQuiet ==
    /\ paystackKey = TRUE
    /\ initial = [v \in Vendors |-> 0]
    /\ PayoutIdle

Init ==
    /\ RefundQuiet
    /\ VerifyQuiet
    /\ paystackKey \in BOOLEAN
    /\ initial \in [Vendors -> InitBalances]
    /\ PayoutIdle

\* return res.status(..).json(..): the handler is over
Return(r, resp) ==
    /\ pc' = [pc EXCEPT ![r] = "done"]
    /\ response' = [response EXCEPT ![r] = resp]

\* the handler goes on to its next await
Goto(r, label) ==
    /\ pc' = [pc EXCEPT ![r] = label]
    /\ UNCHANGED response

\* the outer catch: error.response?.data?.message || error.message
OuterCatch(r, message) == Return(r, Response(500, FALSE, message))

\* the test without its first operand
MissingFieldsButAmount(b) ==
    \/ Falsy(b.account_number)
    \/ Falsy(b.bank_code)
    \/ Falsy(b.vendorName)

\* the test of the required fields
MissingFields(b) ==
    \/ Falsy(b.amount)
    \/ Falsy(b.account_number)
    \/ Falsy(b.bank_code)
    \/ Falsy(b.vendorName)

\* A request arrives with a verified token: the handler runs up to the
\* users query.
PayoutWith(r, uids, bodies) ==
    /\ pc[r] = "idle"
    /\ \E u \in uids, b \in bodies :
        /\ uid' = [uid EXCEPT ![r] = u]
        /\ body' = [body EXCEPT ![r] = b]
        /\ IF MissingFields(b)
           THEN Return(r, Response(400, FALSE, "Missing required fields"))
           ELSE IF ~paystackKey
           THEN Return(r, Response(500, FALSE,
                                   "No Paystack key configured on server"))
           ELSE Goto(r, "users")
    /\ UNCHANGED <<refundVars, verifyVars, paystackKey,
                   initial, balance, withdrawals, reserved,
                   calls, failure, compensations, resolvedAccountName,
                   recipientCode, transferData>>

Payout(r) == PayoutWith(r, Uids, Bodies)

\* The users query answers.
UsersQuery(r) ==
    /\ pc[r] = "users"
    /\ \E ok \in BOOLEAN :
        IF ~ok THEN OuterCatch(r, StoreError)
        ELSE IF uid[r] \notin DOMAIN balance
        THEN Return(r, Response(400, FALSE, "User not found"))
        ELSE Goto(r, "reserve")
    /\ UNCHANGED <<refundVars, verifyVars, paystackKey,
                   initial, balance, withdrawals, uid, body,
                   reserved, calls, failure, compensations,
                   resolvedAccountName, recipientCode, transferData>>

\* the test left out
InsufficientNever(currentBalance, withdrawalAmount) == FALSE

\* the test of the transaction function: currentBalance < withdrawalAmount
Insufficient(currentBalance, withdrawalAmount) ==
    NumLt(currentBalance, withdrawalAmount)

\* the transaction function run on the balance of an earlier read, its
\* update not serialized with the other handlers' writes
ReserveStale(r) ==
    /\ pc[r] = "reserve"
    /\ LET currentBalance == initial[uid[r]]
           withdrawalAmount == ToNumber(body[r].amount)
       IN IF NumLt(currentBalance, withdrawalAmount)
          THEN /\ pc' = [pc EXCEPT ![r] = "done"]
               /\ response' = [response EXCEPT ![r] =
                      [status |-> 400, success |-> FALSE,
                       text |-> "Insufficient balance"]]
               /\ UNCHANGED <<balance, reserved>>
          ELSE /\ balance' = [balance EXCEPT
                     ![uid[r]] = NumSub(currentBalance, withdrawalAmount)]
               /\ reserved' = [reserved EXCEPT ![r] = TRUE]
               /\ pc' = [pc EXCEPT ![r] = "resolve"]
               /\ UNCHANGED response
    /\ UNCHANGED <<refundVars, verifyVars, paystackKey,
                   initial, withdrawals, uid, body, calls,
                   failure, compensations, resolvedAccountName,
                   recipientCode, transferData>>

\* the transaction run on the first users document of the collection, not on
\* the document of the request's uid
ReserveFirstDocument(r) ==
    /\ pc[r] = "reserve"
    /\ \E ok \in BOOLEAN :
        LET userRef == CHOOSE v \in DOMAIN balance : TRUE
            currentBalance == balance[userRef]
            withdrawalAmount == ToNumber(body[r].amount)
        IN IF ~ok
           THEN /\ Return(r, Response(400, FALSE, StoreError))
                /\ UNCHANGED <<balance, reserved>>
           ELSE IF NumLt(currentBalance, withdrawalAmount)
           THEN /\ Return(r, Response(400, FALSE, "Insufficient balance"))
                /\ UNCHANGED <<balance, reserved>>
           ELSE /\ balance' = [balance EXCEPT
                      ![userRef] = NumSub(currentBalance, withdrawalAmount)]
                /\ reserved' = [reserved EXCEPT ![r] = TRUE]
                /\ Goto(r, "resolve")
    /\ UNCHANGED <<refundVars, verifyVars, paystackKey,
                   initial, withdrawals, uid, body, calls,
                   failure, compensations, resolvedAccountName,
                   recipientCode, transferData>>

\* firestore.runTransaction: the read of the balance, the test and the
\* update are one serialized step of the store (a transaction whose read
\* was overwritten is run again by the store).  The users document is never
\* deleted, so userDocSnapshot.exists holds.
Reserve(r) ==
    /\ pc[r] = "reserve"
    /\ \E ok \in BOOLEAN :
        LET currentBalance == balance[uid[r]]
            withdrawalAmount == ToNumber(body[r].amount)
        IN IF ~ok
           THEN /\ Return(r, Response(400, FALSE, StoreError))
                /\ UNCHANGED <<balance, reserved>>
           ELSE IF Insufficient(currentBalance, withdrawalAmount)
           THEN /\ Return(r, Response(400, FALSE, "Insufficient balance"))
                /\ UNCHANGED <<balance, reserved>>
           ELSE /\ balance' = [balance EXCEPT
                      ![uid[r]] = NumSub(currentBalance, withdrawalAmount)]
                /\ reserved' = [reserved EXCEPT ![r] = TRUE]
                /\ Goto(r, "resolve")
    /\ UNCHANGED <<refundVars, verifyVars, paystackKey,
                   initial, withdrawals, uid, body, calls,
                   failure, compensations, resolvedAccountName,
                   recipientCode, transferData>>

\* a catch block of a gateway step starts the refund of the reserved funds
Compensate(r, step, text) ==
    /\ failure' = [failure EXCEPT ![r] = Failure(step, text)]
    /\ Goto(r, "refund")

\* error.response?.data?.message || fallback
ErrorMessage(e, fallback) == IF e.response THEN e.message ELSE fallback

\* The bank/resolve call answers; the handler checks the name and runs the
\* partial name match up to its next await.
ResolveAccount(r) ==
    /\ pc[r] = "resolve"
    /\ calls' = [calls EXCEPT ![r] = Append(@, "resolveAccount")]
    /\ \/ \E e \in GatewayErrors :
            /\ Compensate(r, "resolve", ErrorMessage(e,
                   "Could not resolve account name. Check parameters or try again."))
            /\ UNCHANGED resolvedAccountName
       \/ \E name \in ResolvedNames :
            /\ resolvedAccountName' = [resolvedAccountName EXCEPT ![r] = name]
            /\ IF Falsy(name)
               THEN Compensate(r, "noname",
                        "Account verification failed: Paystack returned no name")
               ELSE IF body[r].vendorName.type # "string"
               THEN \* vendorName.toLowerCase is not a function
                    /\ OuterCatch(r, "vendorName.toLowerCase is not a function")
                    /\ UNCHANGED failure
               ELSE IF Mismatch(body[r].vendorName.str, name.str)
               THEN Compensate(r, "mismatch",
                        "Account verification failed: name mismatch or invalid details")
               ELSE /\ Goto(r, "recipient")
                    /\ UNCHANGED failure
    /\ UNCHANGED <<refundVars, verifyVars, paystackKey,
                   initial, balance, withdrawals, uid, body,
                   reserved, compensations, recipientCode, transferData>>

\* the recipient step without its test of the recipient code
CreateRecipientUnchecked(r) ==
    /\ pc[r] = "recipient"
    /\ calls' = [calls EXCEPT ![r] = Append(@, "createRecipient")]
    /\ \/ \E e \in GatewayErrors :
            /\ Compensate(r, "recipient",
                   ErrorMessage(e, "Failed to create transfer recipient"))
            /\ UNCHANGED recipientCode
       \/ \E code \in RecipientCodes :
            /\ recipientCode' = [recipientCode EXCEPT ![r] = code]
            /\ Goto(r, "transfer")
            /\ UNCHANGED failure
    /\ UNCHANGED <<refundVars, verifyVars, paystackKey,
                   initial, balance, withdrawals, uid, body,
                   reserved, compensations, resolvedAccountName, transferData>>

\* The transferrecipient call answers.
CreateRecipient(r) ==
    /\ pc[r] = "recipient"
    /\ calls' = [calls EXCEPT ![r] = Append(@, "createRecipient")]
    /\ \/ \E e \in GatewayErrors :
            /\ Compensate(r, "recipient",
                   ErrorMessage(e, "Failed to create transfer recipient"))
            /\ UNCHANGED recipientCode
       \/ \E code \in RecipientCodes :
            /\ recipientCode' = [recipientCode EXCEPT ![r] = code]
            /\ IF Falsy(code)
               THEN Compensate(r, "nocode", "Failed to create transfer recipient")
               ELSE /\ Goto(r, "transfer")
                    /\ UNCHANGED failure
    /\ UNCHANGED <<refundVars, verifyVars, paystackKey,
                   initial, balance, withdrawals, uid, body,
                   reserved, compensations, resolvedAccountName, transferData>>

\* the transfer step whose catch block does not return: it logs the error
\* and the handler goes on to the audit write
InitiateTransferFallThrough(r) ==
    /\ pc[r] = "transfer"
    /\ calls' = [calls EXCEPT ![r] = Append(@, "initiateTransfer")]
    /\ \/ \E e \in GatewayErrors :
            /\ failure' = [failure EXCEPT ![r] = Failure("transfer", e.message)]
            /\ UNCHANGED transferData
       \/ \E res \in TransferResponses :
            /\ transferData' = [transferData EXCEPT ![r] = res.data]
            /\ UNCHANGED failure
    /\ Goto(r, "withdrawal")
    /\ UNCHANGED <<refundVars, verifyVars, paystackKey,
                   initial, balance, withdrawals, uid, body,
                   reserved, compensations, resolvedAccountName, recipientCode>>

\* The transfer call answers.
InitiateTransfer(r) ==
    /\ pc[r] = "transfer"
    /\ calls' = [calls EXCEPT ![r] = Append(@, "initiateTransfer")]
    /\ \/ \E e \in GatewayErrors :
            /\ Compensate(r, "transfer", e.message)
            /\ UNCHANGED transferData
       \/ \E res \in TransferResponses :
            /\ transferData' = [transferData EXCEPT ![r] = res.data]
            /\ Goto(r, "withdrawal")
            /\ UNCHANGED failure
    /\ UNCHANGED <<refundVars, verifyVars, paystackKey,
                   initial, balance, withdrawals, uid, body,
                   reserved, compensations, resolvedAccountName, recipientCode>>

\* the response of a catch block of a gateway step
FailureResponse(f) ==
    Response(IF f.step = "transfer" THEN 500 ELSE 400, FALSE, f.text)

\* the increment applied twice
IncrementTwice(currentBalance, amount) ==
    NumAdd(NumAdd(currentBalance, ToNumber(amount)), ToNumber(amount))

\* userRef.update({balance: FieldValue.increment(Number(amount))})
Increment(currentBalance, amount) == NumAdd(currentBalance, ToNumber(amount))

\* The refund update of a catch block answers: applied by the store, or
\* rejected (the rejection is logged and swallowed); the handler returns the
\* response of the failed step.
Refund(r) ==
    /\ pc[r] = "refund"
    /\ \E ok \in BOOLEAN :
        /\ balance' = IF ok
                      THEN [balance EXCEPT
                               ![uid[r]] = Increment(@, body[r].amount)]
                      ELSE balance
        /\ compensations' = [compensations EXCEPT
               ![r] = Append(@, IF ok THEN "refunded" ELSE "failed")]
    /\ Return(r, FailureResponse(failure[r]))
    /\ UNCHANGED <<refundVars, verifyVars, paystackKey,
                   initial, withdrawals, uid, body, reserved,
                   calls, failure, resolvedAccountName, recipientCode,
                   transferData>>

\* the document added to the withdrawals collection
Withdrawal(r) ==
    [uid |-> uid[r], amount |-> ToNumber(body[r].amount),
     accountno |-> body[r].account_number,
     accountname |-> resolvedAccountName[r]]

\* withdrawals.add answers: the record is stored and the payout reported,
\* or the rejection reaches the outer catch.
AddWithdrawal(r) ==
    /\ pc[r] = "withdrawal"
    /\ \E ok \in BOOLEAN :
        IF ok
        THEN /\ withdrawals' = [withdrawals EXCEPT
                    ![r] = Append(@, Withdrawal(r))]
             /\ Return(r, Response(200, TRUE, "Payout successful!"))
        ELSE /\ OuterCatch(r, StoreError)
             /\ UNCHANGED withdrawals
    /\ UNCHANGED <<refundVars, verifyVars, paystackKey,
                   initial, balance, uid, body, reserved, calls,
                   failure, compensations, resolvedAccountName,
                   recipientCode, transferData>>

Next ==
    \E r \in Requests :
        \/ Payout(r)
        \/ UsersQuery(r)
        \/ Reserve(r)
        \/ ResolveAccount(r)
        \/ CreateRecipient(r)
        \/ InitiateTransfer(r)
        \/ Refund(r)
        \/ AddWithdrawal(r)

Spec == Init /\ [][Next]_vars

(***************************************************************************)
(* POST /payout with two vendors: requests of the data model (every field  *)
(* present, a positive amount) by either vendor or by a user without a     *)
(* users document.                                                         *)
(***************************************************************************)
TwoVendors == {"v1", "v2"}

VendorBodies ==
    [amount : {Num(n) : n \in 1..MaxAmount}, account_number : {Str(<<"x">>)},
     bank_code : {Str(<<"x">>)}, vendorName : {Str(<<"A", " ", "b">>)}]

PayoutVendor(r) == PayoutWith(r, TwoVendors \cup {NoUser}, VendorBodies)

InitVendors ==
    /\ RefundQuiet
    /\ VerifyQuiet
    /\ paystackKey = TRUE
    /\ initial \in [TwoVendors -> 0..MaxBalance]
    /\ PayoutIdle

NextVendors ==
    \E r \in Requests :
        \/ PayoutVendor(r)
        \/ UsersQuery(r)
        \/ Reserve(r)
        \/ ResolveAccount(r)
        \/ CreateRecipient(r)
        \/ InitiateTransfer(r)
        \/ Refund(r)
        \/ AddWithdrawal(r)

SpecVendors == InitVendors /\ [][NextVendors]_vars

(***************************************************************************)
(* The name check of the payout handler on its own: the empty-name test    *)
(* and the partial name match, applied to a claimed name (vendorName, which *)
(* the validation lets through only when it is not empty) and a resolved   *)
(* name.                                                                   *)
(***************************************************************************)
Chars == {"a", "B", " ", "\t"}

RECURSIVE StringsOf(_)
StringsOf(n) ==
    IF n = 0 THEN {<<>>}
    ELSE LET shorter == StringsOf(n - 1)
         IN shorter \cup {Append(t, c) : t \in shorter, c \in Chars}

\* the names of the worked examples
ExampleClaimed ==
    { <<"N", "n", "a", "m", "d", "i", " ", "A", "n", "e", "k", "e">>,
      <<"J", "o", "h", "n", " ", "S", "m", "i", "t", "h">> }
ExampleResolved ==
    { <<"N", "N", "A", "M", "D", "I", " ", "G", "O", "O", "D", "N", "E", "S",
        "S", " ", "A", "N", "E", "K", "E">>,
      <<"J", "a", "n", "e", " ", "D", "o", "e">> }

ClaimedNames == (StringsOf(MaxLen) \ {<<>>}) \cup ExampleClaimed
ResolvedStrings == StringsOf(MaxLen) \cup ExampleResolved

InitVerify ==
    /\ RefundQuiet
    /\ PayoutQuiet
    /\ claimedName \in ClaimedNames
    /\ resolvedName \in ResolvedStrings
    /\ verdict = "none"

\* if (!resolvedAccountName) ... the loop over userWords ... if (mismatch)
VerifyName ==
    /\ verdict = "none"
    /\ verdict' = IF resolvedName = <<>> THEN "no name"
                  ELSE IF Mismatch(claimedName, resolvedName) THEN "mismatch"
                  ELSE "match"
    /\ UNCHANGED <<payoutVars, refundVars, claimedName, resolvedName>>

NextVerify == VerifyName

SpecVerify == InitVerify /\ [][NextVerify]_vars

(***************************************************************************)
(* The POST /refund handler.                                               *)
(***************************************************************************)
RefundReturn(f, resp) ==
    /\ rpc' = [rpc EXCEPT ![f] = "done"]
    /\ rresponse' = [rresponse EXCEPT ![f] = resp]

RefundGoto(f, label) ==
    /\ rpc' = [rpc EXCEPT ![f] = label]
    /\ UNCHANGED rresponse

RefundSuccess == Response(200, TRUE, "Refund successful and Firestore updated.")

\* the catch block of the Firestore part
ReconciliationFailure ==
    Response(500, FALSE, "Paystack succeeded but Firestore update failed")

\* message || fallback
MessageOr(message, fallback) == IF message = "" THEN fallback ELSE message

\* A refund request arrives: the handler tests the header and starts the
\* verification of the token.
RefundRequest(f) ==
    /\ rpc[f] = "idle"
    /\ \E t \in Tokens, ref \in References \cup {NoReference} :
        /\ token' = [token EXCEPT ![f] = t]
        /\ reference' = [reference EXCEPT ![f] = ref]
        /\ IF t = "none"
           THEN RefundReturn(f, Response(401, FALSE, "No token provided"))
           ELSE RefundGoto(f, "token")
    /\ UNCHANGED <<payoutVars, verifyVars, initialCounters, counters, orders,
                   refundRes, ordersSnap, usersSnap, batched>>

\* verifyIdToken answers; the handler checks the email and the body and
\* calls Paystack.
VerifyToken(f) ==
    /\ rpc[f] = "token"
    /\ IF token[f] = "invalid"
       THEN RefundReturn(f, Response(401, FALSE, "Invalid token"))
       ELSE IF token[f] # "operator"
       THEN RefundReturn(f, Response(403, FALSE, "Forbidden"))
       ELSE IF reference[f] = NoReference
       THEN RefundReturn(f, Response(400, FALSE, "Missing reference"))
       ELSE RefundGoto(f, "paystack")
    /\ UNCHANGED <<payoutVars, verifyVars, initialCounters, counters, orders,
                   token, reference, refundRes, ordersSnap, usersSnap,
                   batched>>

\* the refund step that does not test the status flag of the answer
PaystackRefundUnchecked(f) ==
    /\ rpc[f] = "paystack"
    /\ \E a \in RefundAnswers :
        /\ refundRes' = [refundRes EXCEPT ![f] = a]
        /\ IF a.kind = "error"
           THEN RefundReturn(f, Response(500, FALSE,
                    MessageOr(a.message, "Error calling Paystack refund")))
           ELSE RefundGoto(f, "orders")
    /\ UNCHANGED <<payoutVars, verifyVars, initialCounters, counters, orders,
                   token, reference, ordersSnap, usersSnap, batched>>

\* The Paystack refund call answers.
PaystackRefund(f) ==
    /\ rpc[f] = "paystack"
    /\ \E a \in RefundAnswers :
        /\ refundRes' = [refundRes EXCEPT ![f] = a]
        /\ IF a.kind = "error"
           THEN RefundReturn(f, Response(500, FALSE,
                    MessageOr(a.message, "Error calling Paystack refund")))
           ELSE IF ~a.status
           THEN RefundReturn(f, Response(400, FALSE,
                    MessageOr(a.message, "Refund failed on Paystack")))
           ELSE RefundGoto(f, "orders")
    /\ UNCHANGED <<payoutVars, verifyVars, initialCounters, counters, orders,
                   token, reference, ordersSnap, usersSnap, batched>>

\* The orders query answers: the orders of the reference.
OrdersQuery(f) ==
    /\ rpc[f] = "orders"
    /\ \E ok \in BOOLEAN :
        IF ~ok
        THEN /\ RefundReturn(f, ReconciliationFailure)
             /\ UNCHANGED ordersSnap
        ELSE LET docs == {o \in Orders : OrderReference(o) = reference[f]}
             IN /\ ordersSnap' = [ordersSnap EXCEPT ![f] = docs]
                /\ IF docs = {}
                   THEN RefundReturn(f, RefundSuccess)
                   ELSE RefundGoto(f, "users")
    /\ UNCHANGED <<payoutVars, verifyVars, initialCounters, counters, orders,
                   token, reference, refundRes, usersSnap, batched>>

\* [...new Set(ordersSnap.docs.map((d) => d.data().useruid))]
DistinctUids(docs) == {OrderUseruid(o) : o \in docs}

\* The users query answers: the users documents of the orders' vendors,
\* with the counters they hold now.
OrderUsersQuery(f) ==
    /\ rpc[f] = "users"
    /\ \E ok \in BOOLEAN :
        IF ~ok
        THEN /\ RefundReturn(f, ReconciliationFailure)
             /\ UNCHANGED usersSnap
        ELSE /\ usersSnap' = [usersSnap EXCEPT ![f] =
                    { [uid |-> v,
                       totalorder |-> counters[v].totalorder,
                       ordernumber |-> counters[v].ordernumber] :
                      v \in DistinctUids(ordersSnap[f]) }]
             /\ RefundGoto(f, "batch")
    /\ UNCHANGED <<payoutVars, verifyVars, initialCounters, counters, orders,
                   token, reference, refundRes, ordersSnap, batched>>

\* the increment without its test
DecrementUnguarded(x) == 0 - 1

\* the increment of a counter whose data read x: -1 when (x || 0) > 0
Decrement(x) == IF x > 0 THEN 0 - 1 ELSE 0

\* the counters with one decrement for every order of the snapshot
CountersAfterBatchPerOrder(f) ==
    [v \in OrderUsers |->
        IF \E d \in usersSnap[f] : d.uid = v
        THEN LET d == CHOOSE d \in usersSnap[f] : d.uid = v
                 k == Cardinality({o \in ordersSnap[f] : OrderUseruid(o) = v})
             IN [totalorder |->
                     counters[v].totalorder + k * Decrement(d.totalorder),
                 ordernumber |->
                     counters[v].ordernumber + k * Decrement(d.ordernumber)]
        ELSE counters[v]]

\* the counters after the updates of usersSnap.docs.forEach are applied:
\* FieldValue.increment(-1) on the stored value, decided on the data read
CountersAfterBatch(f) ==
    [v \in OrderUsers |->
        IF \E d \in usersSnap[f] : d.uid = v
        THEN LET d == CHOOSE d \in usersSnap[f] : d.uid = v
             IN [totalorder |->
                     counters[v].totalorder + Decrement(d.totalorder),
                 ordernumber |->
                     counters[v].ordernumber + Decrement(d.ordernumber)]
        ELSE counters[v]]

\* the orders after ordersSnap.docs.forEach marked each one refunded
OrdersAfterBatch(f) ==
    [o \in Orders |-> IF o \in ordersSnap[f] THEN RefundedOrder ELSE orders[o]]

\* the updates written one after the other instead of in a transaction: a
\* failure after the orders leaves them marked and the counters unchanged
RefundTransactionPartial(f) ==
    /\ rpc[f] = "batch"
    /\ \E ok \in BOOLEAN :
        IF ok
        THEN /\ orders' = OrdersAfterBatch(f)
             /\ counters' = CountersAfterBatch(f)
             /\ batched' = [batched EXCEPT ![f] = TRUE]
             /\ RefundReturn(f, RefundSuccess)
        ELSE /\ orders' = OrdersAfterBatch(f)
             /\ RefundReturn(f, ReconciliationFailure)
             /\ UNCHANGED <<counters, batched>>
    /\ UNCHANGED <<payoutVars, verifyVars, initialCounters, token, reference,
                   refundRes, ordersSnap, usersSnap>>

\* firestore.runTransaction of the refund: its updates are committed
\* together, or the transaction is rejected and none is.
RefundTransaction(f) ==
    /\ rpc[f] = "batch"
    /\ \E ok \in BOOLEAN :
        IF ok
        THEN /\ orders' = OrdersAfterBatch(f)
             /\ counters' = CountersAfterBatch(f)
             /\ batched' = [batched EXCEPT ![f] = TRUE]
             /\ RefundReturn(f, RefundSuccess)
        ELSE /\ RefundReturn(f, ReconciliationFailure)
             /\ UNCHANGED <<orders, counters, batched>>
    /\ UNCHANGED <<payoutVars, verifyVars, initialCounters, token, reference,
                   refundRes, ordersSnap, usersSnap>>

InitRefund == RefundInit /\ VerifyQuiet /\ PayoutQuiet

NextRefund ==
    \E f \in Refunds :
        \/ RefundRequest(f)
        \/ VerifyToken(f)
        \/ PaystackRefund(f)
        \/ OrdersQuery(f)
        \/ OrderUsersQuery(f)
        \/ RefundTransaction(f)

SpecRefund == InitRefund /\ [][NextRefund]_vars

(***************************************************************************)
(* Vocabulary of the properties.                                           *)
(***************************************************************************)
Done(r) == pc[r] = "done"
Amount(r) == ToNumber(body[r].amount)
PositiveAmount(r) == Amount(r) # NaN /\ Amount(r) > 0

\* a request of the data model: every field present, amount > 0, the
\* claimed name a string
ValidRequest(r) ==
    /\ pc[r] # "idle"
    /\ body[r].amount # Undefined /\ PositiveAmount(r)
    /\ body[r].account_number # Undefined
    /\ body[r].bank_code # Undefined
    /\ body[r].vendorName.type = "string" /\ body[r].vendorName.str # <<>>

ValidationFailure == Response(400, FALSE, "Missing required fields")
InsufficientFunds == Response(400, FALSE, "Insufficient balance")

\* the saga reached Committed: transfer accepted, audit entry written,
\* success reported
Committed(r) ==
    /\ Done(r) /\ response[r].success
    /\ Len(calls[r]) = 3 /\ failure[r] = NoFailure /\ withdrawals[r] # <<>>

\* the transfer call answered and axios did not reject it: the handler went
\* on to the audit write
TransferAccepted(r) == Len(calls[r]) = 3 /\ failure[r] = NoFailure
CompensationFailed(r) ==
    \E i \in 1..Len(compensations[r]) : compensations[r][i] = "failed"
Refunded(r) ==
    \E i \in 1..Len(compensations[r]) : compensations[r][i] = "refunded"

\* no other request has touched the ledger
Alone(r) == \A q \in Requests \ {r} : ~reserved[q]

RECURSIVE SumAmounts(_)
SumAmounts(S) ==
    IF S = {} THEN 0
    ELSE LET r == CHOOSE x \in S : TRUE
         IN NumAdd(Amount(r), SumAmounts(S \ {r}))

(***************************************************************************)
(* C1, as claimed: a valid request that ran to completion with no other    *)
(* request touching the ledger leaves balance = initial - amount if and    *)
(* only if it reached Committed, and balance = initial otherwise.          *)
(***************************************************************************)
C1_DebitIffCommitted ==
    \A r \in Requests :
        (Done(r) /\ ValidRequest(r) /\ Alone(r) /\ uid[r] \in Vendors) =>
            IF Committed(r)
            THEN balance[uid[r]] = initial[uid[r]] - Amount(r)
            ELSE balance[uid[r]] = initial[uid[r]]

\* C1, amended: a valid request that ran to completion with no other request
\* touching the ledger leaves balance = initial - amount if and only if its
\* transfer was accepted (whether or not the audit write then succeeded) or
\* its compensation write failed, and balance = initial otherwise.
C1_DebitIffTransferredOrUncompensated ==
    \A r \in Requests :
        (Done(r) /\ ValidRequest(r) /\ Alone(r) /\ uid[r] \in Vendors) =>
            IF TransferAccepted(r) \/ CompensationFailed(r)
            THEN balance[uid[r]] = initial[uid[r]] - Amount(r)
            ELSE balance[uid[r]] = initial[uid[r]]

\* balance 100, a valid request of 60 alone on the ledger committed: the
\* balance is 40
C1_Witness ==
    \E r \in Requests :
        /\ Done(r) /\ ValidRequest(r) /\ Alone(r) /\ uid[r] \in Vendors
        /\ Committed(r)
        /\ initial[uid[r]] = 100 /\ Amount(r) = 60
        /\ balance[uid[r]] = 40

(***************************************************************************)
(* C2, as claimed: in every reachable state every vendor's stored balance  *)
(* is >= 0 (stated for the runs in which every amount that reserved is a   *)
(* number, so that the balance is one too).                                *)
(***************************************************************************)
C2_BalanceNonNegative ==
    (\A r \in Requests : reserved[r] => Amount(r) # NaN) =>
        \A v \in Vendors : balance[v] # NaN /\ balance[v] >= 0

(***************************************************************************)
(* C3: reserves on one vendor serialize.  While every amount reserved on a *)
(* vendor is positive, the amounts held (reserved and not refunded) never  *)
(* exceed the vendor's initial balance; and with balance 100 and two       *)
(* requests of 60 whose reserve transactions both ran before any refund,   *)
(* exactly one reserved, the other was answered "Insufficient balance",    *)
(* and the balance is 40 then and after the successful one commits.        *)
(***************************************************************************)
ReservedOn(v) == {r \in Requests : reserved[r] /\ uid[r] = v}
HeldOn(v) == {r \in ReservedOn(v) : ~Refunded(r)}
ReserveDecided(r) == reserved[r] \/ response[r] = InsufficientFunds

C3_ReservesSerialize ==
    /\ \A v \in Vendors :
        (\A r \in ReservedOn(v) : PositiveAmount(r)) =>
            SumAmounts(HeldOn(v)) <= initial[v]
    /\ \A v \in Vendors : \A r1, r2 \in Requests :
        ( /\ r1 # r2 /\ initial[v] = 100
          /\ uid[r1] = v /\ uid[r2] = v
          /\ Amount(r1) = 60 /\ Amount(r2) = 60
          /\ ReserveDecided(r1) /\ ReserveDecided(r2)
          /\ ~Refunded(r1) /\ ~Refunded(r2) ) =>
            /\ reserved[r1] # reserved[r2]
            /\ balance[v] = 40

\* balance 100, two requests of 60: one committed, the other was refused
C3_Witness ==
    \E v \in Vendors : \E r1, r2 \in Requests :
        /\ r1 # r2 /\ initial[v] = 100 /\ uid[r1] = v /\ uid[r2] = v
        /\ Amount(r1) = 60 /\ Amount(r2) = 60
        /\ Committed(r1) /\ Done(r2) /\ response[r2] = InsufficientFunds
        /\ balance[v] = 40

(***************************************************************************)
(* C4, as claimed: once every request has finished and no compensation     *)
(* write failed, each vendor's balance is its initial balance minus the    *)
(* sum of the amounts of the requests on it that committed (stated for the *)
(* runs in which every amount that reserved is positive).                  *)
(***************************************************************************)
C4_NoLostUpdates ==
    ( /\ \A r \in Requests : Done(r)
      /\ \A r \in Requests : reserved[r] => PositiveAmount(r)
      /\ \A r \in Requests : ~CompensationFailed(r) ) =>
        \A v \in Vendors :
            balance[v] =
                NumSub(initial[v],
                       SumAmounts({r \in Requests : Committed(r) /\ uid[r] = v}))

(***************************************************************************)
(* C5, as claimed: every request whose reserve succeeded and that ended in *)
(* an error before its transfer was accepted made exactly one compensation *)
(* attempt (stated for positive amounts).                                  *)
(***************************************************************************)
C5_ExactlyOneCompensation ==
    \A r \in Requests :
        (Done(r) /\ reserved[r] /\ PositiveAmount(r) /\ ~TransferAccepted(r)) =>
            Len(compensations[r]) = 1

(***************************************************************************)
(* C6, as claimed: of two requests that failed at the same step with the   *)
(* same cause, one whose compensation write failed and one whose           *)
(* compensation succeeded, the responses differ (stated for valid          *)
(* requests).                                                              *)
(***************************************************************************)
C6_CompensationFailureDistinct ==
    \A r1, r2 \in Requests :
        ( /\ Done(r1) /\ Done(r2)
          /\ ValidRequest(r1) /\ ValidRequest(r2)
          /\ failure[r1] # NoFailure /\ failure[r1] = failure[r2]
          /\ compensations[r1] = <<"failed">>
          /\ compensations[r2] = <<"refunded">> ) =>
            response[r1] # response[r2]

(***************************************************************************)
(* C7, as claimed: a request whose transfer was accepted and whose audit   *)
(* write failed is reported successful, and its debit stays (stated for    *)
(* valid requests with no other request touching the ledger).              *)
(***************************************************************************)
C7_AuditFailureStillSuccess ==
    \A r \in Requests :
        ( /\ Done(r) /\ ValidRequest(r) /\ Alone(r)
          /\ TransferAccepted(r) /\ withdrawals[r] = <<>> ) =>
            /\ response[r].success
            /\ balance[uid[r]] = initial[uid[r]] - Amount(r)

(***************************************************************************)
(* C8: a reserve transaction that finds the amount above the balance       *)
(* leaves every balance unchanged and ends the request with 400            *)
(* "Insufficient balance" (or with the store's own error when the store    *)
(* rejected the transaction), with no reservation; and a request answered  *)
(* "Insufficient balance" has made no gateway call, no compensation and    *)
(* no audit write.                                                         *)
(***************************************************************************)
C8_Rejected(r) ==
    /\ balance' = balance
    /\ pc'[r] = "done"
    /\ response'[r] \in {InsufficientFunds, Response(400, FALSE, StoreError)}
    /\ ~reserved'[r]

C8_NoEffects(r) ==
    /\ ~reserved[r]
    /\ calls[r] = <<>>
    /\ compensations[r] = <<>>
    /\ withdrawals[r] = <<>>

C8_InsufficientFundsRejected ==
    /\ [](\A r \in Requests :
            (Done(r) /\ response[r] = InsufficientFunds) => C8_NoEffects(r))
    /\ [][\A r \in Requests :
            ( /\ pc[r] = "reserve" /\ pc'[r] # "reserve"
              /\ Amount(r) # NaN /\ balance[uid[r]] # NaN
              /\ Amount(r) > balance[uid[r]] ) => C8_Rejected(r)]_vars

\* balance 100, amount 150: refused, the balance still 100
C8_Witness ==
    \E r \in Requests :
        /\ Done(r) /\ uid[r] \in Vendors
        /\ initial[uid[r]] = 100 /\ Amount(r) = 150
        /\ response[r] = InsufficientFunds
        /\ balance[uid[r]] = 100
        /\ C8_NoEffects(r)

(***************************************************************************)
(* C9: a request with amount 0, or with amount, account_number, bank_code  *)
(* or vendorName missing, is over as soon as it was received, answered 400 *)
(* "Missing required fields", with no reservation, no compensation, no     *)
(* gateway call and no audit write.                                        *)
(***************************************************************************)
C9_Incomplete(b) ==
    \/ b.amount = Num(0)
    \/ b.amount = Undefined
    \/ b.account_number = Undefined
    \/ b.bank_code = Undefined
    \/ b.vendorName = Undefined

C9_ValidationRejects ==
    \A r \in Requests :
        (pc[r] # "idle" /\ C9_Incomplete(body[r])) =>
            /\ Done(r)
            /\ response[r] = ValidationFailure
            /\ C8_NoEffects(r)

\* one request with amount 0 and one with no account_number, all their other
\* fields present, both rejected, the balance untouched
C9_Witness ==
    \E r1, r2 \in Requests :
        /\ body[r1].amount = Num(0)
        /\ body[r1].account_number # Undefined
        /\ body[r1].bank_code # Undefined
        /\ body[r1].vendorName # Undefined
        /\ body[r2].amount = Num(60)
        /\ body[r2].account_number = Undefined
        /\ body[r2].bank_code # Undefined
        /\ body[r2].vendorName # Undefined
        /\ response[r1] = ValidationFailure
        /\ response[r2] = ValidationFailure
        /\ balance = initial

(***************************************************************************)
(* C10, as claimed: for a request whose amount is not a number > 0 no      *)
(* reserve, no gateway call, no compensation and no audit write happens    *)
(* (it fails at validation).                                               *)
(***************************************************************************)
C10_NonPositiveAmountRejected ==
    \A r \in Requests :
        (pc[r] # "idle" /\ ~PositiveAmount(r)) =>
            /\ C8_NoEffects(r)
            /\ Done(r) => response[r].status # 200

(***************************************************************************)
(* C11: the gateway calls of a request are a prefix of resolveAccount,     *)
(* createRecipient, initiateTransfer, each made at most once; the first is *)
(* made only after the reserve succeeded, the second only after a          *)
(* non-empty resolved name passed the name match, the third only after a   *)
(* non-empty recipient code was returned.                                  *)
(***************************************************************************)
GatewaySequence == <<"resolveAccount", "createRecipient", "initiateTransfer">>

C11_GatewayCallsInOrder ==
    \A r \in Requests :
        /\ Len(calls[r]) <= 3
        /\ calls[r] = SubSeq(GatewaySequence, 1, Len(calls[r]))
        /\ Len(calls[r]) >= 1 => reserved[r]
        /\ Len(calls[r]) >= 2 =>
            /\ resolvedAccountName[r].type = "string"
            /\ resolvedAccountName[r].str # <<>>
            /\ body[r].vendorName.type = "string"
            /\ ~Mismatch(body[r].vendorName.str, resolvedAccountName[r].str)
        /\ Len(calls[r]) >= 3 =>
            /\ recipientCode[r].type = "string"
            /\ recipientCode[r].str # <<>>

\* a request that made all three calls, and one stopped after the first
C11_Witness ==
    \E r1, r2 \in Requests :
        /\ calls[r1] = GatewaySequence
        /\ Done(r2) /\ calls[r2] = <<"resolveAccount">>
        /\ failure[r2].step = "mismatch"

TransferFailed(r) ==
    /\ Len(calls[r]) = 3
    /\ failure[r].step = "transfer" \/ transferData[r] = Undefined

C13_TransferFailureCompensated ==
    \A r \in Requests :
        (ValidRequest(r) /\ Alone(r) /\ TransferFailed(r)) =>
            /\ pc[r] \in {"refund", "done"}
            /\ withdrawals[r] = <<>>
            /\ Done(r) =>
                /\ Len(compensations[r]) = 1
                /\ Refunded(r) => balance[uid[r]] = initial[uid[r]]
                /\ response[r].status = 500 /\ ~response[r].success

(***************************************************************************)
(* Vocabulary of the refund claims.                                        *)
(***************************************************************************)
RefundDone(f) == rpc[f] = "done"

\* the Paystack refund call of f was rejected: it threw (transport failure
\* or error response) or answered with a false status
ProviderRejected(f) ==
    \/ refundRes[f].kind = "error"
    \/ refundRes[f].kind = "body" /\ ~refundRes[f].status

\* the responses of the two rejection branches
RefundErrors ==
    { Response(500, FALSE, "provider message"),
      Response(500, FALSE, "Error calling Paystack refund"),
      Response(400, FALSE, "provider message"),
      Response(400, FALSE, "Refund failed on Paystack") }

\* f takes its transaction step
BatchStep(f) == rpc[f] = "batch" /\ rpc'[f] = "done"

\* the data the users query of f read for vendor v
ReadBy(f, v) == CHOOSE d \in usersSnap[f] : d.uid = v

(***************************************************************************)
(* C14: a refund whose Paystack call was rejected (the call threw, or      *)
(* answered with a false status) is over, answered with a refund error,    *)
(* and has queried no order, queried no users document and written no      *)
(* batch; the step that receives the rejection changes no order and no     *)
(* counter.                                                                *)
(***************************************************************************)
C14_RejectedStep ==
    \A f \in Refunds :
        (rpc[f] = "paystack" /\ rpc'[f] = "done") =>
            /\ orders' = orders
            /\ counters' = counters

C14_RejectedRefundTouchesNothing ==
    /\ [](\A f \in Refunds :
            ProviderRejected(f) =>
                /\ RefundDone(f)
                /\ rresponse[f] \in RefundErrors
                /\ ordersSnap[f] = {}
                /\ usersSnap[f] = {}
                /\ ~batched[f])
    /\ [][C14_RejectedStep]_vars

C14_Witness ==
    \E f \in Refunds :
        /\ ProviderRejected(f)
        /\ refundRes[f].kind = "body"
        /\ reference[f] = "refA"
        /\ RefundDone(f)

(***************************************************************************)
(* C15: after any interleaving of refunds, the totalorder and ordernumber  *)
(* counters of every vendor are >= 0.                                      *)
(***************************************************************************)
C15_CountersNonNegative ==
    \A v \in OrderUsers :
        /\ counters[v].totalorder >= 0
        /\ counters[v].ordernumber >= 0

(***************************************************************************)
(* C16: the transaction of a refund whose reference matches two orders of  *)
(* one vendor takes exactly 2 from each counter of that vendor, and leaves *)
(* 0 where the counter was 0 or 1.                                         *)
(***************************************************************************)
TwoOrdersOfOneVendor(f, v) ==
    /\ Cardinality(ordersSnap[f]) = 2
    /\ DistinctUids(ordersSnap[f]) = {v}

LessClamped(x, k) == IF x - k > 0 THEN x - k ELSE 0

C16_Step ==
    \A f \in Refunds, v \in OrderUsers :
        (BatchStep(f) /\ rresponse'[f].success /\ TwoOrdersOfOneVendor(f, v)) =>
            /\ counters'[v].totalorder = LessClamped(counters[v].totalorder, 2)
            /\ counters'[v].ordernumber = LessClamped(counters[v].ordernumber, 2)

C16_TwoOrdersDecrementByTwo == [][C16_Step]_vars

(***************************************************************************)
(* C16, amended: that transaction takes exactly 1 from each counter of the *)
(* vendor that the refund read as positive, and leaves a counter it read   *)
(* as 0 as it is.                                                          *)
(***************************************************************************)
C16_AmendedStep ==
    \A f \in Refunds, v \in OrderUsers :
        (BatchStep(f) /\ rresponse'[f].success /\ TwoOrdersOfOneVendor(f, v)) =>
            /\ counters'[v].totalorder = counters[v].totalorder -
                   (IF ReadBy(f, v).totalorder > 0 THEN 1 ELSE 0)
            /\ counters'[v].ordernumber = counters[v].ordernumber -
                   (IF ReadBy(f, v).ordernumber > 0 THEN 1 ELSE 0)

C16_TwoOrdersDecrementByOne == [][C16_AmendedStep]_vars

\* a lone refund of refA committed on counters 2 and 0
C16_Witness ==
    \E f \in Refunds :
        /\ batched[f] /\ reference[f] = "refA"
        /\ \A g \in Refunds \ {f} : rpc[g] = "idle"
        /\ initialCounters["v1"] = [totalorder |-> 2, ordernumber |-> 0]
        /\ counters["v1"] = [totalorder |-> 1, ordernumber |-> 0]

(***************************************************************************)
(* C17: the transaction step of a refund is all-or-nothing: either every   *)
(* order of the reference is marked refunded with its time and the counter *)
(* adjustments are applied, and the answer is the success; or no order and *)
(* no counter changes and the answer is the reconciliation failure, which  *)
(* is not a success and is none of the answers of a provider rejection.    *)
(***************************************************************************)
C17_Step ==
    \A f \in Refunds :
        BatchStep(f) =>
            \/ /\ \A o \in Orders :
                    orders'[o] = IF o \in ordersSnap[f] THEN RefundedOrder
                                                       ELSE orders[o]
               /\ \A v \in OrderUsers \ DistinctUids(ordersSnap[f]) :
                    counters'[v] = counters[v]
               /\ \A v \in DistinctUids(ordersSnap[f]) :
                    /\ counters'[v].totalorder = counters[v].totalorder -
                           (IF ReadBy(f, v).totalorder > 0 THEN 1 ELSE 0)
                    /\ counters'[v].ordernumber = counters[v].ordernumber -
                           (IF ReadBy(f, v).ordernumber > 0 THEN 1 ELSE 0)
               /\ rresponse'[f] = RefundSuccess
            \/ /\ orders' = orders
               /\ counters' = counters
               /\ rresponse'[f] = ReconciliationFailure
               /\ ~rresponse'[f].success
               /\ rresponse'[f] \notin RefundErrors

C17_BookkeepingAllOrNothing == [][C17_Step]_vars

\* the transaction of a refund of two orders was rejected
C17_Witness ==
    \E f \in Refunds :
        /\ RefundDone(f)
        /\ usersSnap[f] # {}
        /\ Cardinality(ordersSnap[f]) = 2
        /\ ~batched[f]
        /\ rresponse[f] = ReconciliationFailure

(***************************************************************************)
(* C20: the transaction of a successful refund takes exactly 1 from every  *)
(* positive counter of every vendor that has one or more orders of the     *)
(* reference, whatever the number of its orders, and leaves the counters   *)
(* of the other vendors as they are.                                       *)
(***************************************************************************)
C20_Step ==
    \A f \in Refunds :
        (BatchStep(f) /\ rresponse'[f].success) =>
            /\ \A v \in DistinctUids(ordersSnap[f]) :
                /\ counters[v].totalorder > 0 =>
                       counters'[v].totalorder = counters[v].totalorder - 1
                /\ counters[v].ordernumber > 0 =>
                       counters'[v].ordernumber = counters[v].ordernumber - 1
            /\ \A v \in OrderUsers \ DistinctUids(ordersSnap[f]) :
                counters'[v] = counters[v]

C20_OncePerDistinctVendor == [][C20_Step]_vars

\* a lone refund of refB (one order of v1, one of v2) and one of refA (two
\* orders of v1) each took one
C20_Witness ==
    /\ batched["f1"] /\ reference["f1"] = "refA"
    /\ batched["f2"] /\ reference["f2"] = "refB"
    /\ initialCounters["v1"] = [totalorder |-> 2, ordernumber |-> 2]
    /\ initialCounters["v2"] = [totalorder |-> 2, ordernumber |-> 1]
    /\ counters["v1"] = [totalorder |-> 0, ordernumber |-> 0]
    /\ counters["v2"] = [totalorder |-> 1, ordernumber |-> 0]

(***************************************************************************)
(* C18: payouts of different vendors are independent.  A step changes the  *)
(* balance of a vendor only when it is a step of a request of that vendor; *)
(* and while no other request is for the vendor of a request, the reserve  *)
(* of that request succeeded exactly when the vendor's initial balance     *)
(* covers its amount, and the vendor's balance is the initial one less the *)
(* amount this request holds, whatever the requests of the other vendor    *)
(* did.                                                                    *)
(***************************************************************************)
C18_Step ==
    \A v \in DOMAIN balance :
        balance'[v] # balance[v] =>
            \E r \in Requests : uid[r] = v /\ pc'[r] # pc[r]

OnlyRequestOf(r, v) ==
    /\ uid[r] = v
    /\ \A q \in Requests \ {r} : uid[q] # v

C18_VendorsIndependent ==
    /\ [](\A r \in Requests : \A v \in DOMAIN balance :
            OnlyRequestOf(r, v) =>
                /\ ReserveDecided(r) =>
                       (reserved[r] <=> ~NumLt(initial[v], Amount(r)))
                /\ balance[v] =
                       initial[v] - (IF r \in HeldOn(v) THEN Amount(r) ELSE 0))
    /\ [][C18_Step]_vars

\* two requests of different vendors both reserved; one was compensated and
\* the other transferred
C18_Witness ==
    \E r, q \in Requests :
        /\ uid[r] = "v1" /\ uid[q] = "v2"
        /\ Done(r) /\ Done(q)
        /\ reserved[r] /\ reserved[q]
        /\ Refunded(r) /\ balance["v1"] = initial["v1"]
        /\ TransferAccepted(q) /\ balance["v2"] = initial["v2"] - Amount(q)

(***************************************************************************)
(* C19: the name check answers "match" exactly when the resolved name is   *)
(* not empty and every non-empty whitespace-separated token of the         *)
(* lower-cased claimed name is a substring of the lower-cased resolved     *)
(* name (a claimed name without tokens matches; an empty resolved name     *)
(* does not match).                                                        *)
(***************************************************************************)
Whitespace == {" ", "\t"}

\* the maximal runs of s without whitespace
WhitespaceTokens(s) ==
    { SubSeq(s, i, j) : <<i, j>> \in
        { p \in (1..Len(s)) \X (1..Len(s)) :
            /\ p[1] <= p[2]
            /\ \A k \in p[1]..p[2] : s[k] \notin Whitespace
            /\ p[1] = 1 \/ s[p[1] - 1] \in Whitespace
            /\ p[2] = Len(s) \/ s[p[2] + 1] \in Whitespace } }

TokensMatch(claimed, resolved) ==
    /\ resolved # <<>>
    /\ \A t \in WhitespaceTokens(ToLowerCase(claimed)) :
        Includes(ToLowerCase(resolved), t)

C19_MatchIffEveryToken ==
    verdict # "none" =>
        /\ verdict \in {"match", "mismatch", "no name"}
        /\ verdict = "match" <=> TokensMatch(claimedName, resolvedName)

\* the same on the claimed names whose only whitespace is the blank
NameMatchOnBlanks ==
    (verdict # "none" /\ \A i \in 1..Len(claimedName) : claimedName[i] # "\t") =>
        (verdict = "match" <=> TokensMatch(claimedName, resolvedName))

====
